---- MODULE Spec2Model ----
(***************************************************************************)
(* A model of reusable_file_search.py: the readfile-shortcode scan         *)
(* (find_usages), the report's usage table, and the two mutations          *)
(* (inline_singles, delete_unused) acting on a scan snapshot.              *)
(*                                                                         *)
(* Paths and raw references are strings; Chars gives the characters of    *)
(* each, so that str.endswith is a character-level suffix test as in       *)
(* Python. A file's text is what read_text returns, modelled as a sequence *)
(* of tokens: a plain character, a newline, or one whole match of          *)
(* READFILE_PATTERN. The reusable root and the content root are disjoint   *)
(* directories, as in the repository's tests.                              *)
(***************************************************************************)
EXTENDS Integers, Sequences, FiniteSets, TLC

VARIABLES
    disk,      \* existing file path -> its text
    tree,      \* the disk the run started from
    enum,      \* order in which rglob enumerates the reusable files
    usages,    \* the snapshot: key -> sequence of content paths
    keyorder,  \* insertion order of the keys of usages (a dict keeps it)
    missing,   \* the snapshot's set of unresolved raw references
    table,     \* keys in the order of report's usage table
    pc,        \* "start", "scanned", "idle", "inline", "delete"
    queue,     \* candidates the running mutation has still to process
    last,      \* what the latest step did
    pre,       \* the disk as it was before the latest step
    calls,     \* operations invoked since the first scan
    inlined,   \* <<key, content file>> inlined (written and deleted) since
               \* the latest scan
    gone,      \* what inlined held when the latest scan began
    unreadable,\* content files the latest scan could not read
    since,     \* mutations invoked on the snapshot since the scan that made it
    faults,    \* I/O failures that happened so far
    opfault,   \* TRUE when an I/O failure happened in the current operation
    ops,       \* the writes and unlinks the current mutation call has done
    ran        \* the mutations invoked on the snapshot, in order

vars == <<disk, tree, enum, usages, keyorder, missing, table, pc, queue,
          last, pre, inlined, gone, unreadable, since, calls, faults, opfault,
          ops, ran>>

----------------------------------------------------------------------------
(* Bounds of the model. *)

\* reusable files on disk
MaxReusable == 2
\* directive occurrences over all content files
MaxDirs == 2
\* trailing newlines of a reusable file's text
MaxNewlines == 2
\* operations invoked after the first scan and report
MaxCalls == 2
\* I/O failures in one run
MaxFaults == 1
\* reusable files on disk in the trees with three distinct filenames
MaxStale == 3

----------------------------------------------------------------------------
(* Strings. *)

\* The characters of the strings of the model.
Chars(s) ==
    CASE s = "/r/a/x.md" -> <<"/", "r", "/", "a", "/", "x", ".", "m", "d">>
      [] s = "/r/b/x.md" -> <<"/", "r", "/", "b", "/", "x", ".", "m", "d">>
      [] s = "/r/ax.md" -> <<"/", "r", "/", "a", "x", ".", "m", "d">>
      [] s = "/c/p.md" -> <<"/", "c", "/", "p", ".", "m", "d">>
      [] s = "/c/q.md" -> <<"/", "c", "/", "q", ".", "m", "d">>
      [] s = "c/r/a/x.md" -> <<"c", "/", "r", "/", "a", "/", "x", ".", "m", "d">>
      [] s = "x.md" -> <<"x", ".", "m", "d">>
      [] s = "ax.md" -> <<"a", "x", ".", "m", "d">>
      [] s = "g.md" -> <<"g", ".", "m", "d">>
      [] s = "/r/z.md" -> <<"/", "r", "/", "z", ".", "m", "d">>
      [] s = "z.md" -> <<"z", ".", "m", "d">>

\* Code points of the characters the paths are made of.
Ord(c) ==
    CASE c = "." -> 46
      [] c = "/" -> 47
      [] c = "a" -> 97
      [] c = "b" -> 98
      [] c = "c" -> 99
      [] c = "d" -> 100
      [] c = "g" -> 103
      [] c = "m" -> 109
      [] c = "p" -> 112
      [] c = "q" -> 113
      [] c = "r" -> 114
      [] c = "x" -> 120
      [] c = "z" -> 122

\* Python's < on str: lexicographic by code point.
RECURSIVE CharsLess(_, _)
CharsLess(s, t) ==
    IF t = <<>> THEN FALSE
    ELSE IF s = <<>> THEN TRUE
    ELSE IF Head(s) = Head(t) THEN CharsLess(Tail(s), Tail(t))
    ELSE Ord(Head(s)) < Ord(Head(t))

\* The reusable paths the model's trees are made of.
Paths == {"/r/a/x.md", "/r/b/x.md", "/r/ax.md", "/r/z.md"}

\* The order of the paths, tabulated.
LessTable == [s \in Paths, t \in Paths |-> CharsLess(Chars(s), Chars(t))]

StrLess(s, t) == LessTable[s, t]

\* str.endswith
EndsWith(s, suf) ==
    LET cs == Chars(s)
        cf == Chars(suf)
    IN  /\ Len(cf) <= Len(cs)
        /\ SubSeq(cs, Len(cs) - Len(cf) + 1, Len(cs)) = cf

\* The parts of a PurePosixPath: split at "/", empty and "." parts dropped.
RECURSIVE PathParts(_, _)
PathParts(s, cur) ==
    LET keep == IF cur = <<>> \/ cur = <<".">> THEN <<>> ELSE <<cur>>
    IN  IF s = <<>> THEN keep
        ELSE IF Head(s) = "/" THEN keep \o PathParts(Tail(s), <<>>)
        ELSE PathParts(Tail(s), Append(cur, Head(s)))

\* Path(p).name: the final part, "" when there is none.
PathName(p) ==
    LET parts == PathParts(Chars(p), <<>>)
    IN  IF parts = <<>> THEN <<>> ELSE parts[Len(parts)]

\* sorted() on a set of strings.
RECURSIVE SortedSeq(_)
SortedSeq(S) ==
    IF S = {} THEN <<>>
    ELSE LET m == CHOOSE x \in S : \A y \in S \ {x} : StrLess(x, y)
         IN  <<m>> \o SortedSeq(S \ {m})

Range(s) == {s[i] : i \in 1..Len(s)}

----------------------------------------------------------------------------
(* The files and references of the model. *)

RA  == "/r/a/x.md"
RB  == "/r/b/x.md"
RAX == "/r/ax.md"
CP  == "/c/p.md"
CQ  == "/c/q.md"

RZ  == "/r/z.md"

RKeys == {RA, RB, RAX}
CKeys == {CP, CQ}

RefCA  == "c/r/a/x.md"
RefX   == "x.md"
RefAX  == "ax.md"
RefG   == "g.md"

RefZ   == "z.md"

Refs == {RefCA, RefX, RefAX, RefG, RefZ}

\* rglob over the content root enumerates in this order; the order decides
\* only the order of the entries within a usage sequence.
ContentOrder == <<CP, CQ>>

----------------------------------------------------------------------------
(* Text. *)

NL == "\n"

\* The text of the directive that names r, as the tests' shortcode writes it.
Dir(r) ==
    CASE r = RefCA -> "{{< readfile file=\"c/r/a/x.md\" >}}"
      [] r = RefX -> "{{< readfile file=\"x.md\" >}}"
      [] r = RefAX -> "{{< readfile file=\"ax.md\" >}}"
      [] r = RefG -> "{{< readfile file=\"g.md\" >}}"
      [] r = RefZ -> "{{< readfile file=\"z.md\" >}}"

\* READFILE_PATTERN matches the token.
IsDir(t) == \E r \in Refs : t = Dir(r)

\* match.group(1)
Group1(t) == CHOOSE r \in Refs : t = Dir(r)

\* READFILE_PATTERN.finditer: the directive occurrences, by position.
Occurrences(text) == {i \in 1..Len(text) : IsDir(text[i])}

\* str.rstrip("\n")
RECURSIVE RStripNL(_)
RStripNL(text) ==
    IF text /= <<>> /\ text[Len(text)] = NL
    THEN RStripNL(SubSeq(text, 1, Len(text) - 1))
    ELSE text

----------------------------------------------------------------------------
(* find_usages. *)

\* rglob over the reusable root: the files on disk, in enumeration order.
ReusableFiles(dsk, order) ==
    LET onDisk(k) == k \in DOMAIN dsk
    IN  SelectSeq(order, onDisk)

\* rglob over the content root.
ContentFiles(dsk, order) ==
    LET onDisk(c) == c \in DOMAIN dsk
    IN  SelectSeq(order, onDisk)

\* The test the scan makes of one candidate key, tabulated over the paths
\* and references of the model.
ScanTable ==
    [key \in Paths, ref \in Refs |->
        \/ EndsWith(key, ref) \/ EndsWith(ref, key)
        \/ PathName(ref) = PathName(key)]

ScanMatches(key, ref) == ScanTable[key, ref]

\* The candidate loop without its breaks: the last key that matches wins.
RECURSIVE MatchedKeyLast(_, _)
MatchedKeyLast(ref, keys) ==
    IF keys = <<>> THEN <<>>
    ELSE IF ScanMatches(keys[Len(keys)], ref) THEN <<keys[Len(keys)]>>
    ELSE MatchedKeyLast(ref, SubSeq(keys, 1, Len(keys) - 1))

\* The candidate loop: <<key>> for the first key that matches, <<>> for None.
RECURSIVE MatchedKey(_, _)
MatchedKey(ref, keys) ==
    IF keys = <<>> THEN <<>>
    ELSE IF ScanMatches(Head(keys), ref) THEN <<Head(keys)>>
    ELSE MatchedKey(ref, Tail(keys))

\* The pre-population left out.
SeedNothing(keys) == [u |-> <<>>, order |-> <<>>, m |-> {}]

\* usages pre-populated with every known reusable file.
SeedUsages(keys) ==
    [u |-> [k \in Range(keys) |-> <<>>], order |-> keys, m |-> {}]

\* A content file recorded once however often it names the key.
AppendUsageOnce(acc, k, c) ==
    IF k \in DOMAIN acc.u
    THEN IF c \in Range(acc.u[k]) THEN acc
         ELSE [acc EXCEPT !.u[k] = Append(@, c)]
    ELSE [acc EXCEPT !.u = (k :> <<c>>) @@ @, !.order = Append(@, k)]

\* usages[matched_key].append(...) on a defaultdict(list).
AppendUsage(acc, k, c) ==
    IF k \in DOMAIN acc.u
    THEN [acc EXCEPT !.u[k] = Append(@, c)]
    ELSE [acc EXCEPT !.u = (k :> <<c>>) @@ @, !.order = Append(@, k)]

\* One directive occurrence: a usage of the matched key, or a missing reference.
Resolve(acc, ref, c, keys) ==
    LET mk == MatchedKey(ref, keys)
    IN  IF mk /= <<>> THEN AppendUsage(acc, mk[1], c)
        ELSE [acc EXCEPT !.m = @ \cup {ref}]

\* The finditer loop over one content file's text.
RECURSIVE ScanText(_, _, _, _)
ScanText(acc, text, c, keys) ==
    IF text = <<>> THEN acc
    ELSE LET t == Head(text)
             nxt == IF IsDir(t) THEN Resolve(acc, Group1(t), c, keys) ELSE acc
         IN  ScanText(nxt, Tail(text), c, keys)

\* The loop over the content files; a file that cannot be read is skipped.
RECURSIVE ScanFiles(_, _, _, _, _)
ScanFiles(acc, files, unread, dsk, keys) ==
    IF files = <<>> THEN acc
    ELSE LET c == Head(files)
             nxt == IF c \in unread THEN acc
                    ELSE ScanText(acc, dsk[c], c, keys)
         IN  ScanFiles(nxt, Tail(files), unread, dsk, keys)

FindUsages(dsk, rorder, unread) ==
    LET keys == ReusableFiles(dsk, rorder)
    IN  ScanFiles(SeedUsages(keys), ContentFiles(dsk, ContentOrder), unread,
                  dsk, keys)

----------------------------------------------------------------------------
(* report: the usage table. *)

\* sorted(usages.items(), key=lambda x: -len(x[1])): a stable sort, so keys
\* with the same count stay in the dict's insertion order.
RECURSIVE ByCountDown(_, _, _)
ByCountDown(u, order, n) ==
    LET has(k) == Len(u[k]) = n
    IN  IF n < 0 THEN <<>>
        ELSE SelectSeq(order, has) \o ByCountDown(u, order, n - 1)

MaxCount(u) ==
    IF DOMAIN u = {} THEN 0
    ELSE CHOOSE n \in {Len(u[k]) : k \in DOMAIN u} :
             \A k \in DOMAIN u : Len(u[k]) <= n

UsageTable(u, order) == ByCountDown(u, order, MaxCount(u))

----------------------------------------------------------------------------
(* inline_singles and delete_unused. *)

\* The filter taking every used key.
InlineCandidatesUsed(u) == {k \in DOMAIN u : Len(u[k]) >= 1}

\* candidates = {k: v for k, v in usages.items() if len(v) == 1}
InlineCandidates(u) == {k \in DOMAIN u : Len(u[k]) = 1}

\* The filter of inline_singles left in delete_unused.
UnusedKeysSingle(u) == {k \in DOMAIN u : Len(u[k]) = 1}

\* unused = {k: v for k, v in usages.items() if len(v) == 0}
UnusedKeys(u) == {k \in DOMAIN u : Len(u[k]) = 0}

\* The test replacer makes of one directive occurrence, tabulated.
ReplacerTable ==
    [key \in Paths, ref \in Refs |->
        \/ EndsWith(key, ref) \/ EndsWith(ref, key)
        \/ PathName(ref) = PathName(key)]

ReplacerMatches(key, ref) == ReplacerTable[key, ref]

\* The text put after the directive, not in its place.
ReplacementKeepsDirective(tok, key, rtext) ==
    IF ReplacerMatches(key, Group1(tok)) THEN <<tok>> \o RStripNL(rtext)
    ELSE <<tok>>

\* What replacer returns for one occurrence.
Replacement(tok, key, rtext) ==
    IF ReplacerMatches(key, Group1(tok)) THEN RStripNL(rtext) ELSE <<tok>>

\* READFILE_PATTERN.sub(replacer, content_text): every occurrence is handed to
\* replacer, left to right; what it returns is not scanned again.
RECURSIVE Substitute(_, _, _)
Substitute(text, key, rtext) ==
    IF text = <<>> THEN <<>>
    ELSE LET t == Head(text)
             out == IF IsDir(t) THEN Replacement(t, key, rtext) ELSE <<t>>
         IN  out \o Substitute(Tail(text), key, rtext)

\* The flag set whether or not an occurrence matched.
ReplacedAlways(text, key) == TRUE

\* The flag replacer sets.
Replaced(text, key) ==
    \E i \in Occurrences(text) : ReplacerMatches(key, Group1(text[i]))

Remove(dsk, k) == [p \in DOMAIN dsk \ {k} |-> dsk[p]]

\* The unlink placed before the write: the reusable file is gone when the
\* write fails.
WriteFailedAfterUnlink(dsk, c, k) ==
    {Remove(dsk, k), Remove([dsk EXCEPT ![c] = <<>>], k)}

\* The disks a failed content_file.write_text can leave: the file could not
\* be opened and is as it was, or it was truncated and is empty. The unlink
\* that follows the write in the try block is not reached.
WriteFailed(dsk, c, k) == {dsk, [dsk EXCEPT ![c] = <<>>]}

----------------------------------------------------------------------------
(* The trees the model starts from. *)

\* The injective sequences over S: which files exist, in enumeration order.
InjSeqs(S, max) ==
    UNION {{s \in [1..n -> S] : \A i, j \in 1..n : s[i] = s[j] => i = j} :
           n \in 0..max}

NLs(n) == [i \in 1..n |-> NL]

BodyChar(k) ==
    CASE k = RA -> "a" [] k = RB -> "b" [] k = RAX -> "c" [] k = RZ -> "z"

Shapes ==
    {[nested |-> FALSE, n |-> n] : n \in 0..MaxNewlines}
    \cup {[nested |-> TRUE, n |-> 0]}

\* A reusable file's text: two lines of body, a nested directive when the
\* shape says so, then n trailing newlines.
ReusableText(k, sh) ==
    <<BodyChar(k), NL, BodyChar(k)>>
    \o (IF sh.nested THEN <<Dir(RefAX)>> ELSE <<>>)
    \o NLs(sh.n)

\* Where a directive can stand: a content file and the reference it names.
Slots ==
    <<[file |-> CP, ref |-> RefCA], [file |-> CP, ref |-> RefX],
      [file |-> CP, ref |-> RefAX], [file |-> CP, ref |-> RefG],
      [file |-> CQ, ref |-> RefX]>>

\* The directives of a tree: up to MaxDirs slots, repeats allowed.
Placements ==
    UNION {{[i \in 1..n |-> Slots[s[i]]] :
            s \in {t \in [1..n -> 1..Len(Slots)] :
                      \A i, j \in 1..n : i <= j => t[i] <= t[j]}} :
           n \in 0..MaxDirs}

\* A content file's text: a character, then each of its directives on a line.
RECURSIVE ContentText(_, _)
ContentText(c, pl) ==
    IF pl = <<>> THEN <<"t">>
    ELSE LET front == SubSeq(pl, 1, Len(pl) - 1)
             d == pl[Len(pl)]
         IN  ContentText(c, front)
             \o (IF d.file = c THEN <<Dir(d.ref), NL>> ELSE <<>>)

Tree(order, sh, pl) ==
    [p \in Range(order) \cup CKeys |->
        IF p \in CKeys THEN ContentText(p, pl) ELSE ReusableText(p, sh)]

Step(op, key, loc, out) == [op |-> op, key |-> key, loc |-> loc, out |-> out]

Init ==
    /\ enum \in InjSeqs(RKeys, MaxReusable)
    /\ \E sh \in Shapes, pl \in Placements : disk = Tree(enum, sh, pl)
    /\ usages = <<>>
    /\ keyorder = <<>>
    /\ missing = {}
    /\ table = <<>>
    /\ pc = "start"
    /\ queue = <<>>
    /\ last = Step("none", "", "", "none")
    /\ pre = disk
    /\ tree = disk
    /\ inlined = {}
    /\ gone = {}
    /\ unreadable = {}
    /\ since = 0
    /\ calls = 0
    /\ faults = 0
    /\ opfault = FALSE
    /\ ops = <<>>
    /\ ran = <<>>

----------------------------------------------------------------------------
(* The operations. *)

\* usages, missing = find_usages(reusable_dir, content_dir): the first scan of
\* a run, or a later run's scan of the tree the mutations have left.
Scan ==
    /\ pc = "start" \/ (pc = "idle" /\ calls < MaxCalls /\ last.op /= "scan")
    /\ \E unread \in SUBSET (DOMAIN disk \cap CKeys) :
        /\ faults + Cardinality(unread) <= MaxFaults
        /\ LET r == FindUsages(disk, enum, unread)
           IN  /\ usages' = r.u
               /\ keyorder' = r.order
               /\ missing' = r.m
        /\ faults' = faults + Cardinality(unread)
        /\ opfault' = (unread /= {})
        /\ unreadable' = unread
    /\ last' = Step("scan", "", "", "ok")
    /\ pc' = "scanned"
    /\ calls' = IF pc = "start" THEN 0 ELSE calls + 1
    /\ gone' = inlined
    /\ inlined' = {}
    /\ since' = 0
    /\ table' = <<>>
    /\ pre' = disk
    /\ ops' = <<>>
    /\ ran' = <<>>
    /\ UNCHANGED <<disk, tree, enum, queue>>

\* report(usages, missing, ...): the usage table.
Report ==
    /\ pc = "scanned"
    /\ table' = UsageTable(usages, keyorder)
    /\ pc' = "idle"
    /\ UNCHANGED <<disk, tree, enum, usages, keyorder, missing, queue, last, pre,
                   inlined, gone, unreadable, since, calls, faults, opfault,
                   ops, ran>>

\* What every iteration of a mutation's loop does besides its own effect:
\* the loop goes on with rest, or the operation returns.
Advance(op, k, loc, rest, out, failed, before) ==
    /\ queue' = rest
    /\ pc' = IF rest = <<>> THEN "idle" ELSE op
    /\ last' = Step(op, k, loc, out)
    /\ pre' = disk
    /\ faults' = IF failed THEN faults + 1 ELSE faults
    /\ opfault' = (before \/ failed)
    /\ UNCHANGED <<tree, enum, usages, keyorder, missing, table, gone,
                   unreadable>>

Did(op, file) == [op |-> op, file |-> file]

\* What the call has done before this iteration: nothing when the iteration
\* is the first of a call.
Done == IF pc = "idle" THEN <<>> ELSE ops

\* One iteration of inline_singles' loop, for candidate k. The content file c
\* is on disk: nothing here creates or deletes a content file. A read, the
\* write and the unlink can each fail; a failed write leaves the content file
\* as it was (it could not be opened) or empty (it was truncated).
InlineIteration(k, rest, before) ==
    LET c == usages[k][1]
        canFail == faults < MaxFaults
    IN  \/ /\ k \notin DOMAIN disk
           /\ Advance("inline", k, c, rest, "skip_absent", FALSE, before)
           /\ ops' = Done
           /\ UNCHANGED <<disk, inlined>>
        \/ /\ k \in DOMAIN disk
           /\ canFail
           /\ Advance("inline", k, c, rest, "read_error", TRUE, before)
           /\ ops' = Done
           /\ UNCHANGED <<disk, inlined>>
        \/ /\ k \in DOMAIN disk
           /\ ~Replaced(disk[c], k)
           /\ Advance("inline", k, c, rest, "no_match", FALSE, before)
           /\ ops' = Done
           /\ UNCHANGED <<disk, inlined>>
        \/ /\ k \in DOMAIN disk
           /\ Replaced(disk[c], k)
           /\ canFail
           /\ disk' \in WriteFailed(disk, c, k)
           /\ ops' = IF disk'[c] = disk[c] THEN Done
                     ELSE Append(Done, Did("write", c))
           /\ Advance("inline", k, c, rest, "write_error", TRUE, before)
           /\ UNCHANGED inlined
        \/ /\ k \in DOMAIN disk
           /\ Replaced(disk[c], k)
           /\ canFail
           /\ disk' = [disk EXCEPT ![c] = Substitute(disk[c], k, disk[k])]
           /\ ops' = Append(Done, Did("write", c))
           /\ Advance("inline", k, c, rest, "delete_error", TRUE, before)
           /\ UNCHANGED inlined
        \/ /\ k \in DOMAIN disk
           /\ Replaced(disk[c], k)
           /\ disk' = Remove([disk EXCEPT ![c] = Substitute(disk[c], k, disk[k])], k)
           /\ ops' = Done \o <<Did("write", c), Did("unlink", k)>>
           /\ inlined' = inlined \cup {<<k, c>>}
           /\ Advance("inline", k, c, rest, "ok", FALSE, before)

\* inline_singles(usages) when no key has exactly one use.
InlineNothing ==
    /\ pc = "idle"
    /\ calls < MaxCalls
    /\ InlineCandidates(usages) = {}
    /\ calls' = calls + 1
    /\ since' = since + 1
    /\ opfault' = FALSE
    /\ pre' = disk
    /\ ops' = <<>>
    /\ ran' = Append(ran, "inline")
    /\ last' = Step("inline", "", "", "nothing")
    /\ UNCHANGED <<disk, tree, enum, usages, keyorder, missing, table, pc, queue,
                   inlined, gone, unreadable, faults>>

\* inline_singles(usages): the call, up to the end of the first iteration.
InlineCall ==
    /\ pc = "idle"
    /\ calls < MaxCalls
    /\ InlineCandidates(usages) /= {}
    /\ calls' = calls + 1
    /\ since' = since + 1
    /\ ran' = Append(ran, "inline")
    /\ LET todo == SortedSeq(InlineCandidates(usages))
       IN  InlineIteration(Head(todo), Tail(todo), FALSE)

\* The later iterations of inline_singles' loop.
InlineStep ==
    /\ pc = "inline"
    /\ InlineIteration(Head(queue), Tail(queue), opfault)
    /\ UNCHANGED <<calls, since, ran>>

\* One iteration of delete_unused's loop, for key k.
DeleteIteration(k, rest, before) ==
    \/ /\ k \notin DOMAIN disk
       /\ Advance("delete", k, "", rest, "skip_absent", FALSE, before)
       /\ ops' = Done
       /\ UNCHANGED <<disk, inlined>>
    \/ /\ k \in DOMAIN disk
       /\ faults < MaxFaults
       /\ Advance("delete", k, "", rest, "delete_error", TRUE, before)
       /\ ops' = Done
       /\ UNCHANGED <<disk, inlined>>
    \/ /\ k \in DOMAIN disk
       /\ disk' = Remove(disk, k)
       /\ ops' = Append(Done, Did("unlink", k))
       /\ Advance("delete", k, "", rest, "ok", FALSE, before)
       /\ UNCHANGED inlined

\* delete_unused(usages) when no key has zero uses.
DeleteNothing ==
    /\ pc = "idle"
    /\ calls < MaxCalls
    /\ UnusedKeys(usages) = {}
    /\ calls' = calls + 1
    /\ since' = since + 1
    /\ opfault' = FALSE
    /\ pre' = disk
    /\ ops' = <<>>
    /\ ran' = Append(ran, "delete")
    /\ last' = Step("delete", "", "", "nothing")
    /\ UNCHANGED <<disk, tree, enum, usages, keyorder, missing, table, pc, queue,
                   inlined, gone, unreadable, faults>>

\* delete_unused(usages): the call, up to the end of the first iteration.
DeleteCall ==
    /\ pc = "idle"
    /\ calls < MaxCalls
    /\ UnusedKeys(usages) /= {}
    /\ calls' = calls + 1
    /\ since' = since + 1
    /\ ran' = Append(ran, "delete")
    /\ LET todo == SortedSeq(UnusedKeys(usages))
       IN  DeleteIteration(Head(todo), Tail(todo), FALSE)

\* The later iterations of delete_unused's loop.
DeleteStep ==
    /\ pc = "delete"
    /\ DeleteIteration(Head(queue), Tail(queue), opfault)
    /\ UNCHANGED <<calls, since, ran>>

Next ==
    \/ Scan
    \/ Report
    \/ InlineNothing
    \/ InlineCall
    \/ InlineStep
    \/ DeleteNothing
    \/ DeleteCall
    \/ DeleteStep

Spec == Init /\ [][Next]_vars

----------------------------------------------------------------------------
(* Trees of reusable files with three distinct filenames, all named from   *)
(* one content file, for the runs of several mutations on one snapshot.    *)

StaleKeys == {RAX, RB, RZ}

StaleRefs == <<RefX, RefAX, RefZ>>

\* A reusable file's text: one line, ending in a directive for x.md when the
\* file is the carrier.
StaleText(k, carrier) ==
    <<BodyChar(k)>> \o (IF k = carrier THEN <<Dir(RefX)>> ELSE <<>>) \o <<NL>>

\* The content text naming the references of S, each on a line.
RECURSIVE StaleContent(_, _)
StaleContent(refs, S) ==
    IF refs = <<>> THEN <<"t">>
    ELSE LET front == SubSeq(refs, 1, Len(refs) - 1)
             r == refs[Len(refs)]
         IN  StaleContent(front, S)
             \o (IF r \in S THEN <<Dir(r), NL>> ELSE <<>>)

StaleTree(order, carrier, S) ==
    [p \in Range(order) \cup CKeys |->
        IF p = CP THEN StaleContent(StaleRefs, S)
        ELSE IF p = CQ THEN <<"t">>
        ELSE StaleText(p, carrier)]

InitStale ==
    /\ enum \in InjSeqs(StaleKeys, MaxStale)
    /\ \E carrier \in StaleKeys \cup {""}, S \in SUBSET Range(StaleRefs) :
        disk = StaleTree(enum, carrier, S)
    /\ usages = <<>>
    /\ keyorder = <<>>
    /\ missing = {}
    /\ table = <<>>
    /\ pc = "start"
    /\ queue = <<>>
    /\ last = Step("none", "", "", "none")
    /\ pre = disk
    /\ tree = disk
    /\ inlined = {}
    /\ gone = {}
    /\ unreadable = {}
    /\ since = 0
    /\ calls = 0
    /\ faults = 0
    /\ opfault = FALSE
    /\ ops = <<>>
    /\ ran = <<>>

SpecStale == InitStale /\ [][Next]_vars

----------------------------------------------------------------------------
(* The claims. *)

\* A raw reference matches a reusable file: the file's canonical path is a
\* suffix of the reference, the reference is a suffix of the canonical path,
\* or their filenames are equal.
MatchTable ==
    [ref \in Refs, key \in Paths |->
        \/ EndsWith(ref, key)
        \/ EndsWith(key, ref)
        \/ PathName(ref) = PathName(key)]

RefMatchesFile(ref, key) == MatchTable[ref, key]

OnDisk(S) == S \cap DOMAIN disk

\* The latest step is an iteration of inline_singles for a candidate.
InlineIterated == last.op = "inline" /\ last.key /= ""

\* The latest step is the first iteration of the first mutation that runs on
\* the snapshot, so the tree is still the one the scan saw.
FirstOnSnapshot(op, cands) ==
    /\ last.op = op
    /\ since = 1
    /\ cands /= {}
    /\ last.key = SortedSeq(cands)[1]

\* text with the occurrence at i replaced by ins.
SpliceAt(text, i, ins) ==
    SubSeq(text, 1, i - 1) \o ins \o SubSeq(text, i + 1, Len(text))

\* C1: when inline_singles inlines the single-use file R into its content file
\* C (both read, the write and the delete done), the text of C is its previous
\* text with the one directive occurrence that matches R replaced by R's text
\* without its trailing newlines, nothing else added or removed, and R is no
\* longer on disk.
C1_InlineReplacesOneOccurrence ==
    (InlineIterated /\ last.out = "ok") =>
        /\ last.key \notin DOMAIN disk
        /\ \E i \in Occurrences(pre[last.loc]) :
            /\ RefMatchesFile(Group1(pre[last.loc][i]), last.key)
            /\ disk[last.loc] =
                   SpliceAt(pre[last.loc], i, RStripNL(pre[last.key]))

\* C2: when delete_unused has returned and no I/O operation failed in it,
\* every key with an empty usage sequence is absent from disk.
C2_DeleteUnusedRemovesZeroUse ==
    (pc = "idle" /\ last.op = "delete" /\ ~opfault) =>
        \A k \in DOMAIN usages : Len(usages[k]) = 0 => k \notin DOMAIN disk

\* delete_unused has just deleted a zero-use file, in a map that also holds a
\* used key whose file is on disk.
C2_Witness ==
    /\ pc = "idle" /\ last.op = "delete" /\ last.out = "ok" /\ ~opfault
    /\ Len(usages[last.key]) = 0
    /\ last.key \in DOMAIN pre
    /\ \E k \in DOMAIN usages : Len(usages[k]) >= 1 /\ k \in DOMAIN disk

\* C3: an iteration of delete_unused leaves every reusable file with one or
\* more recorded uses as it was; an iteration of inline_singles leaves every
\* reusable file with 0 or with 2 or more recorded uses as it was, and the only
\* content file it may rewrite is the sole location of the single-use key it
\* is processing.
C3_MutationsRespectUseCount ==
    /\ last.op = "delete" =>
        \A k \in DOMAIN usages :
            (Len(usages[k]) >= 1 /\ k \in DOMAIN pre) =>
                (k \in DOMAIN disk /\ disk[k] = pre[k])
    /\ last.op = "inline" =>
        /\ \A k \in DOMAIN usages :
            (Len(usages[k]) /= 1 /\ k \in DOMAIN pre) =>
                (k \in DOMAIN disk /\ disk[k] = pre[k])
        /\ \A c \in CKeys \cap DOMAIN pre :
            (c \notin DOMAIN disk \/ disk[c] /= pre[c]) =>
                /\ last.key \in DOMAIN usages
                /\ usages[last.key] = <<c>>

\* inline_singles has just inlined a single-use file while the map also holds
\* a key with no use whose file is on disk.
C3_Witness ==
    /\ InlineIterated /\ last.out = "ok"
    /\ disk[last.loc] /= pre[last.loc]
    /\ \E k \in DOMAIN usages : Len(usages[k]) = 0 /\ k \in DOMAIN disk

\* C4: delete_unused run on the map find_usages has just returned never
\* deletes a reusable file that some directive of a content file the scan read
\* matches; stated for the first way of matching, the file's canonical path
\* being a suffix of the reference.
C4_DeleteOnlyUnreferenced ==
    (FirstOnSnapshot("delete", UnusedKeys(usages)) /\ last.out = "ok") =>
        \A c \in OnDisk(CKeys) \ unreadable :
            \A i \in Occurrences(disk[c]) :
                ~EndsWith(Group1(disk[c][i]), last.key)

\* text with exactly the occurrences replaced that the scan, trying the keys
\* in the given order, attributes to key.
RECURSIVE SubstituteAttributed(_, _, _, _)
SubstituteAttributed(text, key, order, ins) ==
    IF text = <<>> THEN <<>>
    ELSE LET t == Head(text)
             out == IF IsDir(t) /\ MatchedKey(Group1(t), order) = <<key>>
                    THEN ins ELSE <<t>>
         IN  out \o SubstituteAttributed(Tail(text), key, order, ins)

\* C5: when inline_singles, run on the map find_usages has just returned,
\* rewrites the content file of a single-use file R, the rewritten text is the
\* previous text with the occurrences the scan attributed to R replaced: a
\* directive the scan attributed to another file or recorded as missing stays
\* as it was.
C5_OnlyAttributedOccurrenceReplaced ==
    (/\ FirstOnSnapshot("inline", InlineCandidates(usages))
     /\ last.out = "ok") =>
        disk[last.loc] =
            SubstituteAttributed(pre[last.loc], last.key, keyorder,
                                 RStripNL(pre[last.key]))

\* The candidates inline_singles has still to process after key.
InlineRest(key) ==
    LET later(k) == StrLess(key, k)
    IN  SelectSeq(SortedSeq({k \in DOMAIN usages : Len(usages[k]) = 1}), later)

\* C6: an iteration of inline_singles whose reusable file is absent, or in
\* which a read fails, or whose content text holds no directive that matches
\* the reusable file, leaves the disk as it was, and the loop goes on with the
\* next candidate.
C6_SkipLeavesFilesUntouched ==
    (/\ InlineIterated
     /\ \/ last.key \notin DOMAIN pre
        \/ last.out = "read_error"
        \/ \A i \in Occurrences(pre[last.loc]) :
               ~RefMatchesFile(Group1(pre[last.loc][i]), last.key)) =>
        /\ disk = pre
        /\ queue = InlineRest(last.key)
        /\ pc = IF queue = <<>> THEN "idle" ELSE "inline"

\* inline_singles has skipped a candidate whose file is on disk and whose
\* content file holds no matching directive, and has candidates left.
C6_Witness ==
    /\ InlineIterated /\ last.out = "no_match"
    /\ last.key \in DOMAIN disk
    /\ queue /= <<>>

\* C7: the map find_usages returns has exactly the reusable files on disk as
\* its keys, and the key of a file that no directive of a content file the
\* scan read matches has the empty sequence.
C7_EveryReusableFileIsAKey ==
    pc = "scanned" =>
        /\ DOMAIN usages = OnDisk(RKeys)
        /\ \A k \in OnDisk(RKeys) :
            (\A c \in OnDisk(CKeys) \ unreadable :
                \A i \in Occurrences(disk[c]) :
                    ~RefMatchesFile(Group1(disk[c][i]), k)) =>
                usages[k] = <<>>

\* A scan that could not read a content file, found an unresolved reference
\* and left a key with no use.
C7_Witness ==
    /\ pc = "scanned"
    /\ unreadable /= {}
    /\ missing /= {}
    /\ \E k \in DOMAIN usages : usages[k] = <<>>

\* The entries of the usage sequences of keys that name the content file c.
RECURSIVE EntriesFrom(_, _)
EntriesFrom(keys, c) ==
    IF keys = {} THEN 0
    ELSE LET k == CHOOSE x \in keys : TRUE
         IN  Cardinality({i \in 1..Len(usages[k]) : usages[k][i] = c})
             + EntriesFrom(keys \ {k}, c)

\* The occurrences in c whose reference matches some reusable file on disk.
Resolvable(c) ==
    {i \in Occurrences(disk[c]) :
        \E k \in OnDisk(RKeys) : RefMatchesFile(Group1(disk[c][i]), k)}

\* C8: after find_usages, each content file it read has as many entries over
\* all usage sequences as it has occurrences that match some reusable file, a
\* file it could not read has none, every entry stands under a key that an
\* occurrence of that file matches, and the missing set is the set of the
\* references of the occurrences that match no reusable file.
C8_EveryOccurrenceCountedOnce ==
    pc = "scanned" =>
        /\ \A c \in OnDisk(CKeys) :
            EntriesFrom(DOMAIN usages, c) =
                IF c \in unreadable THEN 0 ELSE Cardinality(Resolvable(c))
        /\ \A k \in DOMAIN usages : \A n \in 1..Len(usages[k]) :
            /\ usages[k][n] \in OnDisk(CKeys) \ unreadable
            /\ \E i \in Occurrences(disk[usages[k][n]]) :
                   RefMatchesFile(Group1(disk[usages[k][n]][i]), k)
        /\ missing =
               UNION {{Group1(disk[c][i]) : i \in Occurrences(disk[c]) \ Resolvable(c)} :
                      c \in OnDisk(CKeys) \ unreadable}

\* A scan in which one content file names the same reusable file twice.
C8_Witness ==
    /\ pc = "scanned"
    /\ \E k \in DOMAIN usages :
           Len(usages[k]) = 2 /\ usages[k][1] = usages[k][2]

NoNestedDirective == \A k \in RKeys \cap DOMAIN tree : Occurrences(tree[k]) = {}

C10_TableSortedByCountThenPath ==
    pc = "idle" =>
        /\ Len(table) = Cardinality(DOMAIN usages)
        /\ Range(table) = DOMAIN usages
        /\ \A i, j \in 1..Len(table) : i < j =>
            \/ Len(usages[table[i]]) > Len(usages[table[j]])
            \/ /\ Len(usages[table[i]]) = Len(usages[table[j]])
               /\ StrLess(table[i], table[j])

\* The first candidate, in the given order, for which (a), (b) or (c) holds:
\* <<key>>, or <<>> when no candidate satisfies any of them.
FirstCandidate(ref, order) ==
    LET sat == {j \in 1..Len(order) : RefMatchesFile(ref, order[j])}
    IN  IF sat = {} THEN <<>>
        ELSE <<order[CHOOSE j \in sat : \A m \in sat : j <= m]>>

\* The occurrences of the content file c that the reference operator gives to
\* key k.
GivenTo(c, k) ==
    {i \in Occurrences(disk[c]) :
        FirstCandidate(Group1(disk[c][i]), keyorder) = <<k>>}

\* The usage sequence the reference operator yields for k: each content file
\* that was read, in enumeration order, once per occurrence given to k.
RECURSIVE ExpectedUses(_, _)
ExpectedUses(k, files) ==
    IF files = <<>> THEN <<>>
    ELSE LET c == Head(files)
             n == IF c \in unreadable THEN 0 ELSE Cardinality(GivenTo(c, k))
         IN  [i \in 1..n |-> c] \o ExpectedUses(k, Tail(files))

\* C11: find_usages attributes every raw reference to the first reusable
\* path, in enumeration order, that satisfies (a), (b) or (c), with no scoring,
\* and a reference is missing exactly when no reusable path satisfies any.
C11_FirstCandidateWins ==
    pc = "scanned" =>
        /\ keyorder = ReusableFiles(disk, enum)
        /\ \A k \in DOMAIN usages :
            usages[k] = ExpectedUses(k, ContentFiles(disk, ContentOrder))
        /\ missing =
               {r \in Refs :
                   /\ FirstCandidate(r, keyorder) = <<>>
                   /\ \E c \in OnDisk(CKeys) \ unreadable :
                       \E i \in Occurrences(disk[c]) : Group1(disk[c][i]) = r}

\* A scan in which a reference ends with the canonical path of the second
\* file in enumeration order and has only its filename in common with the
\* first, which gets it; another reference matches no file.
C11_Witness ==
    /\ pc = "scanned"
    /\ keyorder = <<RB, RA>>
    /\ usages[RB] = <<CP>>
    /\ usages[RA] = <<>>
    /\ \E i \in Occurrences(disk[CP]) : Group1(disk[CP][i]) = RefCA
    /\ missing = {RefG}

\* How often the current call has done op on file.
Count(op, file) ==
    Cardinality({i \in 1..Len(ops) : ops[i] = Did(op, file)})

\* C12: within one call of inline_singles or delete_unused, no I/O operation
\* failing, each file is written at most once and deleted at most once.
C12_EachFileTouchedOnce ==
    faults = 0 =>
        \A f \in RKeys \cup CKeys :
            Count("write", f) <= 1 /\ Count("unlink", f) <= 1

\* C12, amended: within one call each file is deleted at most once,
\* delete_unused writes no file, no reusable file is written, and
\* inline_singles writes a content file at most once for each single-use key
\* whose sole location it is.
C12_OneWritePerCandidate ==
    /\ \A k \in RKeys : Count("unlink", k) <= 1 /\ Count("write", k) = 0
    /\ \A c \in CKeys :
        /\ Count("unlink", c) = 0
        /\ last.op = "delete" => Count("write", c) = 0
        /\ Count("write", c) <=
               Cardinality({k \in DOMAIN usages : usages[k] = <<c>>})

\* One call of inline_singles has written the same content file for two
\* single-use keys and deleted both reusable files.
C12_Witness ==
    /\ last.op = "inline" /\ pc = "idle"
    /\ \E c \in CKeys : Count("write", c) = 2
    /\ Cardinality({k \in RKeys : Count("unlink", k) = 1}) = 2

\* The keys delete_unused has still to process after key.
DeleteRest(key) ==
    LET later(k) == StrLess(key, k)
    IN  SelectSeq(SortedSeq({k \in DOMAIN usages : Len(usages[k]) = 0}), later)

\* The latest step is an iteration of a call whose operation was invoked on
\* the snapshot before.
RepeatedCall ==
    /\ last.op \in {"inline", "delete"}
    /\ \E i \in 1..(Len(ran) - 1) : ran[i] = ran[Len(ran)]

\* C13: in any sequence of inline_singles and delete_unused calls on one
\* snapshot, every iteration hands over to the remaining candidates (no call
\* aborts), an iteration whose reusable file is absent skips without writing
\* or deleting, and, in a run without I/O failure, an iteration of a repeated
\* call leaves the disk as it was.
C13_StaleSnapshotTolerated ==
    /\ (last.op = "inline" /\ last.key /= "") =>
           queue = InlineRest(last.key)
    /\ (last.op = "delete" /\ last.key /= "") =>
           queue = DeleteRest(last.key)
    /\ (last.op \in {"inline", "delete"} /\ last.key /= ""
          /\ last.key \notin DOMAIN pre) =>
           (last.out = "skip_absent" /\ disk = pre)
    /\ (RepeatedCall /\ faults = 0) => disk = pre

\* C14: an iteration of inline_singles deletes the reusable file only when
\* it has written the substituted text to the content file in the same
\* iteration; when the write fails the reusable file is on disk with its text
\* as it was, the failure is reported and the loop goes on with the remaining
\* candidates; no iteration changes the text of a reusable file.
C14_DeleteOnlyAfterWrite ==
    InlineIterated =>
        /\ (last.key \in DOMAIN pre /\ last.key \notin DOMAIN disk) =>
            /\ last.out = "ok"
            /\ disk[last.loc] =
                   Substitute(pre[last.loc], last.key, pre[last.key])
            /\ Len(ops) >= 2
            /\ ops[Len(ops) - 1] = Did("write", last.loc)
            /\ ops[Len(ops)] = Did("unlink", last.key)
        /\ last.out = "write_error" =>
            /\ last.key \in DOMAIN disk
            /\ disk[last.key] = pre[last.key]
            /\ opfault
            /\ queue = InlineRest(last.key)
            /\ pc = IF queue = <<>> THEN "idle" ELSE "inline"
        /\ \A k \in (DOMAIN pre \cap DOMAIN disk) \ CKeys : disk[k] = pre[k]

\* A write that failed after truncating the content file, with the reusable
\* file still on disk and a candidate left to process.
C14_Witness ==
    /\ InlineIterated /\ last.out = "write_error"
    /\ disk[last.loc] = <<>> /\ pre[last.loc] /= <<>>
    /\ last.key \in DOMAIN disk
    /\ queue /= <<>>

====
